---- MODULE Spec2Model ----
(***************************************************************************)
(* Model of the Facebook group scraper: the FacebookScraper object of      *)
(* scripts/facebook-scraper.js, the message handlers of                    *)
(* scripts/content-script.js and the popup's localStorage fallback.        *)
(*                                                                         *)
(* The page is single threaded: every action below is one run-to-          *)
(* completion piece of JavaScript (a message handler, a timer callback, or *)
(* the part of an async function between two awaits).                      *)
(***************************************************************************)
EXTENDS Integers, Sequences, FiniteSets, TLC

\* ---------------------------------------------------------------- bounds
\* Posts in the DOM when a page with more posts than one initial
\* extraction batch is loaded.
LargeFeed == 4
\* Posts in the DOM when a small page is loaded, and the number of posts
\* that page can grow to.
SmallFeed == 2
\* Posts in the DOM of a page with a single post.
SingleFeed == 1
MaxButtons == 4
\* extractPostId calls followed on sample nodes, and the values a generated
\* identifier can take.
MaxResolved == 2
\* Pieces of text the extraction methods find in one post.
MaxPieces == 3
MaxRandom == 2
HugeFeed == 9
QueueTarget == 2
MaxCand == 3
\* Number of start commands the popup sends while no run is collecting.
MaxStarts == 1
\* Number of start commands of a popup that starts a run again after the
\* first one has ended.
MaxRuns == 2
\* Scroll steps of one loadMoreContent call (scrollSteps, 8 in the code).
ScrollSteps == 2

\* ------------------------------------------------------ program constants
DefaultCount == 50
InitialBatchSize == 3
BackgroundBatchSize == 5
StallLimit == 3
MaxPasses == 3
\* createContentFingerprint hashes the first 100 characters of the text.
TextSlice == 100
\* loadMoreContent: lastLoadTime at the start of a run, the range of the
\* settle delay and the wait after a third cycle without new content (ms).
InitialLoadTime == 1000
MinTimeout == 500
MaxTimeout == 2000
BackoffWait == 5000

\* Counts the popup sends with startScraping (parseInt of the input field:
\* any integer; 0 and NaN are falsy and are replaced by DefaultCount).
MessageCounts == {-1, 1, 2}

Min(a, b) == IF a < b THEN a ELSE b
Max(a, b) == IF a > b THEN a ELSE b

\* Array.prototype.slice(start, end) on a sequence, with JavaScript's
\* treatment of negative indices.
SliceJS(s, start, end) ==
  LET n == Len(s)
      from == IF start < 0 THEN Max(n + start, 0) ELSE Min(start, n)
      to == IF end < 0 THEN Max(n + end, 0) ELSE Min(end, n)
  IN IF to <= from THEN << >> ELSE SubSeq(s, from + 1, to)

\* ------------------------------------------------------------------ state
VARIABLES
  scrapedPosts,      \* this.scrapedPosts (Items)
  processedIds,      \* this.processedIds (IdentitySet)
  isCollecting, isPaused, isLoading,
  postsToCollect,    \* target count
  observer,          \* "none" | "observing" | "disconnected"
  progressInterval, backupScrollTimer, cleanupInterval,  \* handles, 0 = unset
  lastScrapedCount,  \* -1 = undefined
  consecutiveNoNewContentCount,
  intervals,         \* the page's live setInterval timers: [kind, id]
  rendered,          \* candidates 1..rendered are in the DOM (page height)
  storage,           \* localStorage: lastResult, progressData, state, and
                     \* garbled: the keys whose text is not valid JSON
  modalCands,        \* the posts whose "see more" opens a modal view
  emptyCands,        \* the posts with no text, no images and no comments
  startsLeft,        \* start commands the popup has yet to send
  pendingStarts,     \* startCollecting calls inside their 2000 ms wait
  loadPc, loadI, oldHeight,   \* the loadMoreContent call in flight
  tasks,             \* extractPostData calls of initial batches in flight
  modals,            \* expandSeemoreButtons calls that will open a modal
  bg,                \* processRemainingPosts queues
  runNo,             \* number of runs initialised so far
  endedBy,           \* how the last run ended: "none" | "stop" | "complete"
  result,            \* the result of the last finishCollection
  completeEmits,     \* scrapingComplete events sent since the run began
  response,          \* what the last step sent or returned to the popup
  didScan, didScroll,\* whether the last step ran getPosts / window.scrollBy
  threw,             \* an exception escaped a handler
  itemsAtPause,      \* identifiers in scrapedPosts at the last pauseCollection
  resumedAfterPause, \* that pause was followed by a resumeCollection
  removedDuplicates, \* posts the last finishCollection dropped as duplicates
  accepted,          \* identifiers pushed onto scrapedPosts, in push order
  quietCycles,       \* loading cycles that ended their settle delay since the
                     \* run started, the page grew or a post was pushed
  dispatched,        \* how often extractPostData was called by getPosts or
                     \* processRemainingPosts, per candidate and run
  expansion,         \* the content extraction of one post: where its
                     \* expandSeemoreButtons stands and what was read
  resolved,          \* the extractPostId calls made on sample nodes: the
                     \* node and the identifier returned, in call order
  content,           \* the extractAllContent call made on sample pieces of
                     \* text: the pieces found and the pieces of the body
  pacing,            \* the settle delay of loadMoreContent: lastLoadTime,
                     \* the timeout of the cycle under way and the flags
                     \* that decide whether a cycle starts and scans
  stoppedShort,      \* the run was stopped with fewer posts than its target
  channel,           \* chrome.runtime messaging: "ok" | "lastError" | "throws"
  sendCallbacks,     \* callbacks of scrapingComplete messages yet to run:
                     \* fail: it will find chrome.runtime.lastError;
                     \* run: the run whose completion sent the message
  downloadLinks,     \* createDownloadLink calls for the run's result
  sendFailed         \* the run's scrapingComplete could not be delivered

scraperVars == <<scrapedPosts, processedIds, isCollecting, isPaused, isLoading,
                 postsToCollect, observer, progressInterval, backupScrollTimer,
                 cleanupInterval, lastScrapedCount, consecutiveNoNewContentCount>>
envVars == <<intervals, rendered, modalCands, emptyCands, startsLeft, storage,
             pendingStarts, loadPc, loadI, oldHeight, tasks, modals, bg>>
ghostVars == <<runNo, endedBy, result, completeEmits, response, didScan,
               didScroll, threw, itemsAtPause, resumedAfterPause,
               removedDuplicates, accepted, quietCycles, dispatched,
               stoppedShort>>
expandVars == <<expansion>>
identityVars == <<resolved>>
contentVars == <<content>>
pacingVars == <<pacing>>
deliveryVars == <<channel, sendCallbacks, downloadLinks, sendFailed>>
vars == <<scraperVars, envVars, ghostVars, deliveryVars, expandVars,
         identityVars, contentVars, pacingVars>>

\* ------------------------------------------------------------ identities
\* extractPostId on candidate c: the c-th post of the feed exposes the
\* post identifier c in its data-ft metadata or permalink.
IdOf(c) == c

\* Candidates whose "see more" button opens the post in a modal view.
HasModal(c) == c \in modalCands

\* extractAllContent, extractImages and extractComments all come back empty
\* on candidate c; extractFromModalView pushes only when it found content.
IsEmpty(c) == c \in emptyCands

Post(c, r, m) == [postId |-> IdOf(c), run |-> r, fromModal |-> m,
                  empty |-> ~m /\ IsEmpty(c)]

\* ---------------------------------------------------------------- storage
NoData == [present |-> FALSE, posts |-> << >>, totalScraped |-> 0,
           isComplete |-> FALSE, partialData |-> FALSE]
NoState == [present |-> FALSE, isCollecting |-> FALSE, isPaused |-> FALSE,
            postsToCollect |-> 0, scrapedPostsCount |-> 0]

\* ------------------------------------------------------------- expansion
\* pc: position of expandSeemoreButtons; pass: its pass counter; left: the
\* "see more" buttons of the pass not yet clicked; clicks: buttons clicked;
\* textRead: extractPostContentAdvanced has read the text of the node;
\* readAt: the position of expandSeemoreButtons at that moment.
\* The scraper as its constructor leaves it, seen from the settle delay:
\* pc is where loadMoreContent stands ("idle" when isLoading is false),
\* timeout the delay the cycle under way took from lastLoadTime (0: none),
\* cycleOfRun the cycles begun since the run started (counted up to 2) and
\* measured the time the last finished cycle measured (-1: it did not scan).
NoPacing == [isCollecting |-> FALSE, isPaused |-> FALSE, pc |-> "idle",
             lastLoadTime |-> InitialLoadTime, timeout |-> 0,
             cycleOfRun |-> 0, measured |-> -1]

\* No extractAllContent call was made yet.
NoContent == [called |-> FALSE, found |-> << >>, body |-> << >>]

NoExpansion == [pc |-> "idle", pass |-> 0, left |-> 0, clicks |-> 0,
                textRead |-> FALSE, readAt |-> "idle"]

\* ------------------------------------------------------------- responses
\* phase: the phase the scraper was in when a stop command arrived.
NoResponse == [kind |-> "none", success |-> FALSE, data |-> NoData,
               isCollecting |-> FALSE, isPaused |-> FALSE,
               currentCount |-> 0, totalCount |-> 0, phase |-> "none"]

Phase == IF isCollecting THEN (IF isPaused THEN "paused" ELSE "collecting")
         ELSE IF endedBy = "none" THEN "idle" ELSE endedBy

\* The state after construction, on a page that shows `feed` posts, of which
\* those in `withModal` open in a modal view, and with `starts` start
\* commands to come.
\* withEmpty: the posts of the page that have no text, image or comment.
InitWith(feed, withModal, withEmpty, starts) ==
  /\ rendered = feed
  /\ modalCands = withModal
  /\ emptyCands = withEmpty
  /\ startsLeft = starts
  /\ scrapedPosts = << >>
  /\ processedIds = {}
  /\ isCollecting = FALSE
  /\ isPaused = FALSE
  /\ isLoading = FALSE
  /\ postsToCollect = 0
  /\ observer = "none"
  /\ progressInterval = 0
  /\ backupScrollTimer = 0
  /\ cleanupInterval = 0
  /\ lastScrapedCount = -1
  /\ consecutiveNoNewContentCount = 0
  /\ intervals = {}
  /\ storage = [lastResult |-> NoData, progressData |-> NoData,
                state |-> NoState, garbled |-> {}]
  /\ pendingStarts = << >>
  /\ loadPc = "idle"
  /\ loadI = 0
  /\ oldHeight = 0
  /\ tasks = {}
  /\ modals = {}
  /\ bg = {}
  /\ runNo = 0
  /\ endedBy = "none"
  /\ result = NoData
  /\ completeEmits = 0
  /\ response = NoResponse
  /\ didScan = FALSE
  /\ didScroll = FALSE
  /\ threw = FALSE
  /\ itemsAtPause = {}
  /\ resumedAfterPause = FALSE
  /\ removedDuplicates = 0
  /\ accepted = << >>
  /\ quietCycles = 0
  /\ dispatched = << >>
  /\ expansion = NoExpansion
  /\ resolved = << >>
  /\ content = NoContent
  /\ pacing = NoPacing
  /\ stoppedShort = FALSE
  /\ channel = "ok"
  /\ sendCallbacks = << >>
  /\ downloadLinks = 0
  /\ sendFailed = FALSE

InitOn(feed, withModal, starts) == InitWith(feed, withModal, {}, starts)

\* ------------------------------------------------------- pure operations
\* removeDuplicatePosts: keeps the first post of every key. The key is
\* post.postId, which extractPostId never leaves empty.
RECURSIVE DedupFrom(_, _, _)
DedupFrom(posts, i, seen) ==
  IF i > Len(posts) THEN << >>
  ELSE IF posts[i].postId \in seen
       THEN DedupFrom(posts, i + 1, seen)
       ELSE <<posts[i]>> \o DedupFrom(posts, i + 1, seen \cup {posts[i].postId})

KeepDuplicatePosts(posts) == posts
removeDuplicatePosts(posts) == DedupFrom(posts, 1, {})

\* posts: this.scrapedPosts.slice(0, this.postsToCollect)
UntrimmedPosts(posts, n) == posts
ResultPosts(posts, n) == SliceJS(posts, 0, n)

\* const count = message.count || 50
RequestedCount(c) == IF c = 0 THEN DefaultCount ELSE c

\* getPosts: the candidates of the DOM, in document order, whose identifier
\* is not yet in processedIds; each one found is added to processedIds.
\* (ScanAllFrom: a scan that takes every candidate as new.)
RECURSIVE ScanAllFrom(_, _, _, _)
RECURSIVE ScanFrom(_, _, _, _)
ScanAllFrom(c, n, ids, queue) ==
  IF c > n THEN [ids |-> ids, queue |-> queue]
  ELSE ScanAllFrom(c + 1, n, ids \cup {IdOf(c)}, Append(queue, c))
ScanFrom(c, n, ids, queue) ==
  IF c > n THEN [ids |-> ids, queue |-> queue]
  ELSE IF IdOf(c) \in ids
       THEN ScanFrom(c + 1, n, ids, queue)
       ELSE ScanFrom(c + 1, n, ids \cup {IdOf(c)}, Append(queue, c))

Scan(ids) == ScanFrom(1, rendered, ids, << >>)

SeqSet(s) == {s[i] : i \in 1 .. Len(s)}

\* scrapedPosts.push(post): the order in which identifiers first entered the
\* collection.
Accept(acc, id) == IF id \in SeqSet(acc) THEN acc ELSE Append(acc, id)

\* Guards of the code, one operator each.
AlwaysAccepted == TRUE
StartGuard == ~isCollecting                    \* if (this.isCollecting) return
AlwaysFinish == TRUE
FinishGuard == isCollecting                    \* if (!this.isCollecting) return
ScanWhilePaused(paused) == TRUE
ScanAllowed(paused) == ~paused                 \* if (!this.isPaused) getPosts
ScrollAllowed(paused) == ~paused               \* if (this.isPaused) break
ObserverUnchecked == TRUE
ObserverTruthy == observer # "none"            \* if (this.observer)

ClearInterval(iv, kind, id) == iv \ {[kind |-> kind, id |-> id]}

Disconnected(o) == IF o = "none" THEN "none" ELSE "disconnected"

\* Every action says which operation it is and what it did.
Step(scan, scroll, resp) ==
  /\ didScan' = scan
  /\ didScroll' = scroll
  /\ response' = resp

\* extractPostData(element) is called for the candidates of `cands` in run r.
Dispatch(d, cands, r) ==
  LET new == {[cand |-> c, run |-> r] : c \in cands}
  IN [x \in DOMAIN d \cup new |->
        (IF x \in DOMAIN d THEN d[x] ELSE 0) + (IF x \in new THEN 1 ELSE 0)]

\* ------------------------------------------------------------- fragments
\* getPosts(): scans, starts the extraction of the first InitialBatchSize
\* new candidates at once and queues the rest for processRemainingPosts.
GetPosts(ids, r, oldTasks, oldModals, oldBg) ==
  LET sc == Scan(ids)
      first == SliceJS(sc.queue, 0, Min(InitialBatchSize, Len(sc.queue)))
      rest == SliceJS(sc.queue, Len(first), Len(sc.queue))
  IN /\ processedIds' = sc.ids
     /\ tasks' = oldTasks \cup {[cand |-> c, run |-> r] : c \in SeqSet(first)}
     /\ modals' = oldModals \cup
                  {[cand |-> c, run |-> r] : c \in {d \in SeqSet(first) : HasModal(d)}}
     /\ bg' = IF rest = << >> THEN oldBg
              ELSE oldBg \cup {[rest |-> rest, pending |-> {}, stage |-> "timer", run |-> r]}
     /\ dispatched' = Dispatch(dispatched, SeqSet(first), r)

\* The synchronous head of loadMoreContent(), up to its first await.
\* (LoadUnguarded: the same without the entry guard.)
LoadUnguarded(paused, far) ==
  /\ isLoading' = TRUE
  /\ IF far
     THEN loadPc' = "scroll" /\ loadI' = 1 /\ oldHeight' = oldHeight
     ELSE loadPc' = "settle" /\ loadI' = 0 /\ oldHeight' = rendered
LoadMoreContent(paused, far) ==
  IF isLoading \/ paused
  THEN UNCHANGED <<isLoading, loadPc, loadI, oldHeight>>
  ELSE /\ isLoading' = TRUE
       /\ IF far
          THEN loadPc' = "scroll" /\ loadI' = 1 /\ oldHeight' = oldHeight
          ELSE loadPc' = "settle" /\ loadI' = 0 /\ oldHeight' = rendered
LoadScrolls(paused, far) == ~(isLoading \/ paused) /\ far

NoFinish(posts, st, iv) ==
  /\ scrapedPosts' = posts
  /\ storage' = st
  /\ intervals' = iv
  /\ UNCHANGED <<observer, isCollecting, result, completeEmits, endedBy,
                 removedDuplicates, sendCallbacks, downloadLinks, sendFailed>>

\* finishCollection's catch block creates the download link.
NoFallbackOnThrow == FALSE
FallbackOnThrow == TRUE

\* finishCollection(), called with the collection, the storage and the
\* timers as the caller left them. The result is stored before it is sent;
\* a sendMessage that throws is caught, one that does not throw leaves a
\* callback to run.
FinishCollection(posts, st, iv) ==
  IF FinishGuard
  THEN LET kept == removeDuplicatePosts(posts)
           res == [present |-> TRUE,
                   posts |-> ResultPosts(kept, postsToCollect),
                   totalScraped |-> Len(kept),
                   isComplete |-> TRUE,
                   partialData |-> FALSE]
       IN /\ observer' = Disconnected(observer)
          /\ intervals' = ClearInterval(iv, "cleanup", cleanupInterval)
          /\ scrapedPosts' = kept
          /\ storage' = [st EXCEPT !.lastResult = res, !.progressData = res,
                                   !.garbled = {}]
          /\ isCollecting' = FALSE
          /\ result' = res
          /\ completeEmits' = completeEmits + 1
          /\ endedBy' = "complete"
          /\ removedDuplicates' = Len(posts) - Len(kept)
          /\ sendFailed' = (channel # "ok")
          /\ sendCallbacks' = IF channel = "throws" THEN sendCallbacks
                              ELSE Append(sendCallbacks,
                                          [fail |-> channel = "lastError",
                                           run |-> runNo])
          /\ downloadLinks' = IF channel = "throws" /\ FallbackOnThrow
                              THEN downloadLinks + 1
                              ELSE downloadLinks
  ELSE NoFinish(posts, st, iv)

\* ---------------------------------------------------------------- actions
\* content-script.js, action 'startScraping': answers 'started' and calls
\* startCollecting(count), which returns at once when a run is collecting
\* and otherwise waits 2000 ms before it initialises the run.
StartScraping(c) ==
  /\ isCollecting \/ startsLeft > 0
  /\ startsLeft' = IF isCollecting THEN startsLeft ELSE startsLeft - 1
  /\ pendingStarts' = IF StartGuard
                      THEN Append(pendingStarts, RequestedCount(c))
                      ELSE pendingStarts
  /\ Step(FALSE, FALSE,
          [NoResponse EXCEPT !.kind = "started", !.success = TRUE,
                             !.phase = "none"])
  /\ UNCHANGED <<scraperVars, intervals, rendered, modalCands, emptyCands, storage,
                 loadPc, loadI, oldHeight, tasks, modals, bg, runNo, endedBy,
                 result, completeEmits, threw, itemsAtPause,
                 resumedAfterPause, removedDuplicates, accepted, quietCycles, dispatched, expansion, resolved, content, pacing, stoppedShort,
                 deliveryVars>>

\* startCollecting after its 2000 ms wait: resets the run, scans the page
\* and creates the three interval timers.
StartInit(far) ==
  /\ pendingStarts # << >>
  /\ LET count == Head(pendingStarts)
         r == runNo + 1
     IN /\ pendingStarts' = Tail(pendingStarts)
        /\ runNo' = r
        /\ isCollecting' = TRUE
        /\ isPaused' = FALSE
        /\ postsToCollect' = count
        /\ scrapedPosts' = << >>
        /\ observer' = "observing"
        /\ GetPosts({}, r, tasks, modals, bg)
        /\ backupScrollTimer' = r
        /\ progressInterval' = r
        /\ cleanupInterval' = r
        /\ intervals' = intervals \cup {[kind |-> k, id |-> r] :
                                          k \in {"backup", "progress", "cleanup"}}
        /\ IF 0 < count
           THEN LoadMoreContent(FALSE, far)
           ELSE UNCHANGED <<isLoading, loadPc, loadI, oldHeight>>
        /\ Step(TRUE, 0 < count /\ LoadScrolls(FALSE, far), NoResponse)
  /\ endedBy' = "none"
  /\ completeEmits' = 0
  /\ itemsAtPause' = {}
  /\ resumedAfterPause' = FALSE
  /\ removedDuplicates' = 0
  /\ accepted' = << >>
  /\ quietCycles' = 0
  /\ UNCHANGED <<expansion, resolved, content, pacing>>
  /\ stoppedShort' = FALSE
  /\ downloadLinks' = 0
  /\ sendFailed' = FALSE
  /\ UNCHANGED <<lastScrapedCount, consecutiveNoNewContentCount, rendered,
                 startsLeft, modalCands, emptyCands, storage, result, threw, channel,
                 sendCallbacks>>

\* The IntersectionObserver callback: the sentinel came into view.
ObserverFires(far) ==
  /\ observer = "observing"
  /\ IF isCollecting /\ ~isPaused /\ ~isLoading
     THEN /\ LoadMoreContent(isPaused, far)
          /\ Step(FALSE, LoadScrolls(isPaused, far), NoResponse)
     ELSE /\ UNCHANGED <<isLoading, loadPc, loadI, oldHeight>>
          /\ Step(FALSE, FALSE, NoResponse)
  /\ UNCHANGED <<scrapedPosts, processedIds, isCollecting, isPaused,
                 postsToCollect, observer, progressInterval,
                 backupScrollTimer, cleanupInterval, lastScrapedCount,
                 consecutiveNoNewContentCount, intervals, rendered,
                 modalCands, emptyCands, startsLeft, storage, pendingStarts, tasks,
                 modals, bg, runNo, endedBy, result, completeEmits, threw,
                 itemsAtPause, resumedAfterPause, removedDuplicates, accepted, quietCycles, dispatched, expansion, resolved, content, pacing,
                 stoppedShort, deliveryVars>>

\* The backup scroll timer (every 5000 ms).
\* (BackupTimerIdle: a backup timer whose callback never loads.)
BackupTimerIdle(t, far) ==
  /\ t \in intervals /\ t.kind = "backup"
  /\ Step(FALSE, FALSE, NoResponse)
  /\ UNCHANGED <<scraperVars, envVars, runNo, endedBy, result, completeEmits,
                 threw, itemsAtPause, resumedAfterPause, removedDuplicates,
                 accepted, quietCycles, dispatched, expansion, resolved, content, pacing, stoppedShort, deliveryVars>>
BackupTimerTick(t, far) ==
  /\ t \in intervals /\ t.kind = "backup"
  /\ IF isCollecting /\ ~isPaused /\ ~isLoading
        /\ Len(scrapedPosts) < postsToCollect
     THEN /\ LoadMoreContent(isPaused, far)
          /\ Step(FALSE, LoadScrolls(isPaused, far), NoResponse)
     ELSE /\ UNCHANGED <<isLoading, loadPc, loadI, oldHeight>>
          /\ Step(FALSE, FALSE, NoResponse)
  /\ UNCHANGED <<scrapedPosts, processedIds, isCollecting, isPaused,
                 postsToCollect, observer, progressInterval,
                 backupScrollTimer, cleanupInterval, lastScrapedCount,
                 consecutiveNoNewContentCount, intervals, rendered,
                 modalCands, emptyCands, startsLeft, storage, pendingStarts, tasks,
                 modals, bg, runNo, endedBy, result, completeEmits, threw,
                 itemsAtPause, resumedAfterPause, removedDuplicates, accepted, quietCycles, dispatched, expansion, resolved, content, pacing,
                 stoppedShort, deliveryVars>>

\* saveState() and saveCurrentProgress()
SavedState == [present |-> TRUE, isCollecting |-> isCollecting,
               isPaused |-> isPaused, postsToCollect |-> postsToCollect,
               scrapedPostsCount |-> Len(scrapedPosts)]
EmptyCheckpoint == [NoData EXCEPT !.present = TRUE]
PartialResult == [present |-> TRUE, posts |-> scrapedPosts,
                  totalScraped |-> Len(scrapedPosts), isComplete |-> FALSE,
                  partialData |-> FALSE]

\* The scrapingProgress message of a progress tick.
ProgressEvent ==
  [NoResponse EXCEPT !.kind = "progress",
                     !.currentCount = Len(scrapedPosts),
                     !.totalCount = postsToCollect]

\* The progress timer (every 1000 ms): checkpoint, progress event, and
\* finishCollection once the count has reached the target.
\* (ProgressTickNoFinish: the same timer without the call of finishCollection.)
ProgressTickNoFinish(t) ==
  /\ t \in intervals /\ t.kind = "progress"
  /\ LET st == [storage EXCEPT !.state = SavedState,
                               !.progressData = PartialResult,
                               !.garbled = @ \ {"progressData"}]
     IN NoFinish(scrapedPosts, st, intervals)
  /\ Step(FALSE, FALSE, ProgressEvent)
  /\ UNCHANGED <<accepted, quietCycles, dispatched, expansion, resolved, content, pacing>>
  /\ UNCHANGED <<processedIds, isPaused, isLoading, postsToCollect,
                 progressInterval, backupScrollTimer, cleanupInterval,
                 lastScrapedCount, consecutiveNoNewContentCount, rendered,
                 startsLeft, modalCands, emptyCands, pendingStarts, loadPc, loadI,
                 oldHeight, tasks, modals, bg, runNo, threw, itemsAtPause,
                 resumedAfterPause, stoppedShort, channel>>
ProgressTick(t) ==
  /\ t \in intervals /\ t.kind = "progress"
  /\ LET st == [storage EXCEPT !.state = SavedState,
                               !.progressData = PartialResult,
                               !.garbled = @ \ {"progressData"}]
     IN IF Len(scrapedPosts) >= postsToCollect
        THEN FinishCollection(scrapedPosts, st,
                              ClearInterval(intervals, "progress", progressInterval))
        ELSE NoFinish(scrapedPosts, st, intervals)
  /\ Step(FALSE, FALSE, ProgressEvent)
  /\ UNCHANGED <<accepted, quietCycles, dispatched, expansion, resolved, content, pacing>>
  /\ UNCHANGED <<processedIds, isPaused, isLoading, postsToCollect,
                 progressInterval, backupScrollTimer, cleanupInterval,
                 lastScrapedCount, consecutiveNoNewContentCount, rendered,
                 startsLeft, modalCands, emptyCands, pendingStarts, loadPc, loadI,
                 oldHeight, tasks, modals, bg, runNo, threw, itemsAtPause,
                 resumedAfterPause, stoppedShort, channel>>

\* The cleanup timer (every 10000 ms): keeps the newest postsToCollect posts
\* once the collection is more than one and a half times the target.
CleanupTick(t) ==
  /\ t \in intervals /\ t.kind = "cleanup"
  /\ scrapedPosts' = IF 2 * Len(scrapedPosts) > 3 * postsToCollect
                     THEN SliceJS(scrapedPosts, -postsToCollect, Len(scrapedPosts))
                     ELSE scrapedPosts
  /\ Step(FALSE, FALSE, NoResponse)
  /\ UNCHANGED <<processedIds, isCollecting, isPaused, isLoading,
                 postsToCollect, observer, progressInterval,
                 backupScrollTimer, cleanupInterval, lastScrapedCount,
                 consecutiveNoNewContentCount, envVars, runNo, endedBy,
                 result, completeEmits, threw, itemsAtPause,
                 resumedAfterPause, removedDuplicates, accepted, quietCycles, dispatched, expansion, resolved, content, pacing, stoppedShort,
                 deliveryVars>>

\* The tail of loadMoreContent(): the scan, unless the run is paused.
LoadFinish ==
  /\ lastScrapedCount' = Len(scrapedPosts)
  /\ IF ScanAllowed(isPaused)
     THEN GetPosts(processedIds, runNo, tasks, modals, bg)
     ELSE UNCHANGED <<processedIds, tasks, modals, bg, dispatched>>
  /\ isLoading' = FALSE
  /\ loadPc' = "idle"
  /\ loadI' = 0
  /\ oldHeight' = 0

\* loadMoreContent() after the 100 ms pause of a scroll step: the next
\* scroll step, or the start of the settle delay when the loop is over.
LoadScrollStep ==
  /\ loadPc = "scroll"
  /\ IF loadI < ScrollSteps /\ ScrollAllowed(isPaused)
     THEN /\ loadI' = loadI + 1
          /\ UNCHANGED <<loadPc, oldHeight>>
          /\ Step(FALSE, TRUE, NoResponse)
     ELSE /\ loadPc' = "settle"
          /\ loadI' = 0
          /\ oldHeight' = rendered
          /\ Step(FALSE, FALSE, NoResponse)
  /\ UNCHANGED <<scraperVars, intervals, rendered, modalCands, emptyCands, startsLeft,
                 storage, pendingStarts, tasks, modals, bg, runNo, endedBy,
                 result, completeEmits, threw, itemsAtPause,
                 resumedAfterPause, removedDuplicates, accepted, quietCycles, dispatched, expansion, resolved, content, pacing, stoppedShort,
                 deliveryVars>>

\* loadMoreContent() after the settle delay: stall detection, then either
\* the 5000 ms backoff or the scan. The code tests the stall counter only
\* against StallLimit, so the counter is kept up to that value.
LoadSettled ==
  /\ loadPc = "settle"
  /\ UNCHANGED <<expansion, resolved, content, pacing>>
  /\ LET stalled == oldHeight = rendered /\ lastScrapedCount = Len(scrapedPosts)
         cnt == IF stalled
                THEN Min(consecutiveNoNewContentCount + 1, StallLimit)
                ELSE 0
     IN /\ consecutiveNoNewContentCount' = cnt
        /\ quietCycles' = IF oldHeight = rendered
                          THEN Min(quietCycles + 1, StallLimit)
                          ELSE 0
        /\ IF stalled /\ cnt >= StallLimit
           THEN /\ loadPc' = "backoff"
                /\ UNCHANGED <<lastScrapedCount, processedIds, tasks, modals, bg,
                 isLoading, loadI, oldHeight, dispatched>>
                /\ Step(FALSE, FALSE, NoResponse)
           ELSE /\ LoadFinish
                /\ Step(ScanAllowed(isPaused), FALSE, NoResponse)
  /\ UNCHANGED <<scrapedPosts, isCollecting, isPaused, postsToCollect,
                 observer, progressInterval, backupScrollTimer,
                 cleanupInterval, intervals, rendered, modalCands, emptyCands, startsLeft,
                 storage, pendingStarts, runNo, endedBy, result,
                 completeEmits, threw, itemsAtPause, resumedAfterPause,
                 removedDuplicates, accepted, stoppedShort, deliveryVars>>

\* loadMoreContent() after the backoff wait.
LoadBackoffDone ==
  /\ loadPc = "backoff"
  /\ UNCHANGED <<expansion, resolved, content, pacing>>
  /\ LoadFinish
  /\ Step(ScanAllowed(isPaused), FALSE, NoResponse)
  /\ UNCHANGED <<scrapedPosts, isCollecting, isPaused, postsToCollect,
                 observer, progressInterval, backupScrollTimer,
                 cleanupInterval, consecutiveNoNewContentCount, intervals,
                 rendered, modalCands, emptyCands, startsLeft, storage, pendingStarts,
                 runNo, endedBy, result, completeEmits, threw, itemsAtPause,
                 resumedAfterPause, removedDuplicates, accepted, quietCycles,
                 stoppedShort, deliveryVars>>

\* The page renders one more post (the document grows).
FeedRenders ==
  /\ rendered < MaxCand
  /\ rendered' = rendered + 1
  /\ quietCycles' = 0
  /\ UNCHANGED <<dispatched, expansion, resolved, content, pacing>>
  /\ Step(FALSE, FALSE, NoResponse)
  /\ UNCHANGED <<scraperVars, intervals, modalCands, emptyCands, startsLeft, storage,
                 pendingStarts, loadPc, loadI, oldHeight, tasks, modals, bg,
                 runNo, endedBy, result, completeEmits, threw, itemsAtPause,
                 resumedAfterPause, removedDuplicates, accepted, stoppedShort,
                 deliveryVars>>

\* extractPostData of an initial-batch candidate resolves with its post
\* (it resolves with null only when a DOM access throws): the post is pushed
\* onto scrapedPosts.
ExtractionDone(t) ==
  /\ t \in tasks
  /\ tasks' = tasks \ {t}
  /\ scrapedPosts' = Append(scrapedPosts, Post(t.cand, t.run, FALSE))
  /\ accepted' = Accept(accepted, IdOf(t.cand))
  /\ quietCycles' = 0
  /\ UNCHANGED <<dispatched, expansion, resolved, content, pacing>>
  /\ Step(FALSE, FALSE, NoResponse)
  /\ UNCHANGED <<processedIds, isCollecting, isPaused, isLoading,
                 postsToCollect, observer, progressInterval,
                 backupScrollTimer, cleanupInterval, lastScrapedCount,
                 consecutiveNoNewContentCount, intervals, rendered,
                 modalCands, emptyCands, startsLeft, storage, pendingStarts, loadPc,
                 loadI, oldHeight, modals, bg, runNo, endedBy, result,
                 completeEmits, threw, itemsAtPause, resumedAfterPause,
                 removedDuplicates, stoppedShort, deliveryVars>>

\* expandSeemoreButtons saw the modal open: extractFromModalView records
\* the identifier and pushes the post of the modal.
ModalExtracted(m) ==
  /\ m \in modals
  /\ modals' = modals \ {m}
  /\ processedIds' = processedIds \cup {IdOf(m.cand)}
  /\ scrapedPosts' = Append(scrapedPosts, Post(m.cand, m.run, TRUE))
  /\ accepted' = Accept(accepted, IdOf(m.cand))
  /\ quietCycles' = 0
  /\ UNCHANGED <<dispatched, expansion, resolved, content, pacing>>
  /\ Step(FALSE, FALSE, NoResponse)
  /\ UNCHANGED <<isCollecting, isPaused, isLoading, postsToCollect, observer,
                 progressInterval, backupScrollTimer, cleanupInterval,
                 lastScrapedCount, consecutiveNoNewContentCount, intervals,
                 rendered, modalCands, emptyCands, startsLeft, storage, pendingStarts,
                 loadPc, loadI, oldHeight, tasks, bg, runNo, endedBy, result,
                 completeEmits, threw, itemsAtPause, resumedAfterPause,
                 removedDuplicates, stoppedShort, deliveryVars>>

\* processRemainingPosts(queue), run by its timer: takes the next
\* BackgroundBatchSize candidates off the queue and starts their extraction.
BgBatchStart(q) ==
  /\ q \in bg /\ q.stage = "timer"
  /\ UNCHANGED <<expansion, resolved, content, pacing>>
  /\ LET batch == SliceJS(q.rest, 0, BackgroundBatchSize)
         rest == SliceJS(q.rest, Len(batch), Len(q.rest))
     IN /\ bg' = (bg \ {q}) \cup {[q EXCEPT !.rest = rest,
                                             !.pending = SeqSet(batch),
                                             !.stage = "running"]}
        /\ modals' = modals \cup {[cand |-> c, run |-> q.run] :
                                    c \in {d \in SeqSet(batch) : HasModal(d)}}
        /\ dispatched' = Dispatch(dispatched, SeqSet(batch), q.run)
  /\ Step(FALSE, FALSE, NoResponse)
  /\ UNCHANGED <<scraperVars, intervals, rendered, modalCands, emptyCands, startsLeft,
                 storage, pendingStarts, loadPc, loadI, oldHeight, tasks,
                 runNo, endedBy, result, completeEmits, threw, itemsAtPause,
                 resumedAfterPause, removedDuplicates, accepted, quietCycles,
                 stoppedShort, deliveryVars>>

\* An extraction of a background batch resolves and pushes its post; with
\* the last one of the batch Promise.all resolves: the next batch is
\* scheduled, or finishCollection is called when the target is reached.
BgExtractionDone(q, c) ==
  /\ q \in bg /\ q.stage = "running" /\ c \in q.pending
  /\ LET posts == Append(scrapedPosts, Post(c, q.run, FALSE))
         last == q.pending = {c}
     IN /\ bg' = IF ~last
                 THEN (bg \ {q}) \cup {[q EXCEPT !.pending = q.pending \ {c}]}
                 ELSE IF q.rest # << >>
                      THEN (bg \ {q}) \cup {[q EXCEPT !.pending = {}, !.stage = "timer"]}
                      ELSE bg \ {q}
        /\ IF last /\ q.rest = << >> /\ isCollecting
              /\ Len(posts) >= postsToCollect
           THEN FinishCollection(posts, storage, intervals)
           ELSE NoFinish(posts, storage, intervals)
  /\ accepted' = Accept(accepted, IdOf(c))
  /\ quietCycles' = 0
  /\ UNCHANGED <<dispatched, expansion, resolved, content, pacing>>
  /\ Step(FALSE, FALSE, NoResponse)
  /\ UNCHANGED <<processedIds, isPaused, isLoading, postsToCollect,
                 progressInterval, backupScrollTimer, cleanupInterval,
                 lastScrapedCount, consecutiveNoNewContentCount, rendered,
                 startsLeft, modalCands, emptyCands, pendingStarts, loadPc, loadI,
                 oldHeight, tasks, modals, runNo, threw, itemsAtPause,
                 resumedAfterPause, stoppedShort, channel>>

\* pauseCollection()
PauseCollection ==
  /\ IF isCollecting
     THEN /\ isPaused' = TRUE
          /\ itemsAtPause' = {scrapedPosts[i].postId : i \in 1 .. Len(scrapedPosts)}
          /\ resumedAfterPause' = FALSE
     ELSE UNCHANGED <<isPaused, itemsAtPause, resumedAfterPause>>
  /\ Step(FALSE, FALSE, NoResponse)
  /\ UNCHANGED <<scrapedPosts, processedIds, isCollecting, isLoading,
                 postsToCollect, observer, progressInterval,
                 backupScrollTimer, cleanupInterval, lastScrapedCount,
                 consecutiveNoNewContentCount, envVars, runNo, endedBy,
                 result, completeEmits, threw, removedDuplicates, accepted, quietCycles, dispatched, expansion, resolved, content, pacing,
                 stoppedShort, deliveryVars>>

\* resumeCollection()
ResumeCollection(far) ==
  /\ IF isCollecting
     THEN /\ isPaused' = FALSE
          /\ resumedAfterPause' = (resumedAfterPause \/ isPaused)
          /\ IF Len(scrapedPosts) < postsToCollect
             THEN /\ LoadMoreContent(FALSE, far)
                  /\ Step(FALSE, LoadScrolls(FALSE, far),
                          NoResponse)
             ELSE /\ UNCHANGED <<isLoading, loadPc, loadI, oldHeight>>
                  /\ Step(FALSE, FALSE, NoResponse)
     ELSE /\ UNCHANGED <<isPaused, resumedAfterPause, isLoading, loadPc, loadI,
                 oldHeight>>
          /\ Step(FALSE, FALSE, NoResponse)
  /\ UNCHANGED <<scrapedPosts, processedIds, isCollecting, postsToCollect,
                 observer, progressInterval, backupScrollTimer,
                 cleanupInterval, lastScrapedCount,
                 consecutiveNoNewContentCount, intervals, rendered,
                 modalCands, emptyCands, startsLeft, storage, pendingStarts, tasks,
                 modals, bg, runNo, endedBy, result, completeEmits, threw,
                 itemsAtPause, removedDuplicates, accepted, quietCycles, dispatched, expansion, resolved, content, pacing, stoppedShort, deliveryVars>>

\* content-script.js, action 'stopScraping': stopCollecting()
StopCollecting ==
  /\ isCollecting' = FALSE
  /\ isPaused' = FALSE
  /\ threw' = (threw \/ (ObserverTruthy /\ observer = "none"))
  /\ observer' = Disconnected(observer)
  /\ intervals' = ClearInterval(
                    ClearInterval(
                      ClearInterval(intervals, "progress", progressInterval),
                      "backup", backupScrollTimer),
                    "cleanup", cleanupInterval)
  /\ endedBy' = "stop"
  /\ stoppedShort' = IF isCollecting
                     THEN Len(scrapedPosts) < postsToCollect
                     ELSE stoppedShort
  /\ Step(FALSE, FALSE,
          [NoResponse EXCEPT !.kind = "stopped", !.success = TRUE,
                             !.phase = Phase])
  /\ UNCHANGED <<scrapedPosts, processedIds, isLoading, postsToCollect,
                 progressInterval, backupScrollTimer, cleanupInterval,
                 lastScrapedCount, consecutiveNoNewContentCount, rendered,
                 modalCands, emptyCands, startsLeft, storage, pendingStarts, loadPc,
                 loadI, oldHeight, tasks, modals, bg, runNo, result,
                 completeEmits, itemsAtPause, resumedAfterPause,
                 removedDuplicates, accepted, quietCycles, dispatched, expansion, resolved, content, pacing, deliveryVars>>

\* content-script.js, action 'getScrapingState'
StateResponse ==
  [NoResponse EXCEPT !.kind = "state", !.success = TRUE,
                     !.isCollecting = isCollecting, !.isPaused = isPaused,
                     !.currentCount = Len(scrapedPosts),
                     !.totalCount = postsToCollect]

GetStateAndHalt ==
  /\ isCollecting' = FALSE
  /\ Step(FALSE, FALSE, StateResponse)
  /\ UNCHANGED <<scrapedPosts, processedIds, isPaused, isLoading,
                 postsToCollect, observer, progressInterval,
                 backupScrollTimer, cleanupInterval, lastScrapedCount,
                 consecutiveNoNewContentCount, envVars, runNo, endedBy,
                 result, completeEmits, threw, itemsAtPause,
                 resumedAfterPause, removedDuplicates, accepted, quietCycles, dispatched, expansion, resolved, content, pacing, stoppedShort,
                 deliveryVars>>
GetScrapingState ==
  /\ Step(FALSE, FALSE, StateResponse)
  /\ UNCHANGED <<scraperVars, envVars, runNo, endedBy, result, completeEmits,
                 threw, itemsAtPause, resumedAfterPause, removedDuplicates, accepted, quietCycles, dispatched, expansion, resolved, content, pacing,
                 stoppedShort, deliveryVars>>

\* The stored text a data request reads: 'fb-scraper-last-result', and
\* 'fb-scraper-progress-data' when there is none.
StoredKey == IF storage.lastResult.present THEN "lastResult"
             ELSE "progressData"
StoredData == storage[StoredKey]
\* JSON.parse of the stored text throws.
StoredGarbled == StoredData.present /\ StoredKey \in storage.garbled
\* Both readers parse inside try/catch.
ParseUncaught == FALSE
ParseCaught == TRUE

\* content-script.js, action 'requestData': the parsed stored data as is.
RequestDataResponse ==
  IF StoredData.present /\ ~StoredGarbled
  THEN [NoResponse EXCEPT !.kind = "data", !.success = TRUE, !.data = StoredData]
  ELSE [NoResponse EXCEPT !.kind = "data"]

RequestData ==
  /\ Step(FALSE, FALSE, RequestDataResponse)
  /\ threw' = (threw \/ (StoredGarbled /\ ~ParseCaught))
  /\ UNCHANGED <<scraperVars, envVars, runNo, endedBy, result, completeEmits,
                 itemsAtPause, resumedAfterPause, removedDuplicates, accepted, quietCycles, dispatched, expansion, resolved, content, pacing,
                 stoppedShort, deliveryVars>>

\* popup.js, retrieveFromLocalStorage: marks data that is not complete.
RetrieveResponse ==
  IF StoredData.present /\ ~StoredGarbled
  THEN [NoResponse EXCEPT !.kind = "retrieved", !.success = TRUE,
          !.data = [StoredData EXCEPT !.partialData = ~StoredData.isComplete]]
  ELSE [NoResponse EXCEPT !.kind = "retrieved"]

RetrieveFromLocalStorage ==
  /\ Step(FALSE, FALSE, RetrieveResponse)
  /\ threw' = (threw \/ (StoredGarbled /\ ~ParseCaught))
  /\ UNCHANGED <<scraperVars, envVars, runNo, endedBy, result, completeEmits,
                 itemsAtPause, resumedAfterPause, removedDuplicates, accepted, quietCycles, dispatched, expansion, resolved, content, pacing,
                 stoppedShort, deliveryVars>>

\* The text stored under a key is damaged outside the scraper (another
\* script of the page, or the user): it is no longer valid JSON.
GarbleStorage(k) ==
  /\ storage[k].present
  /\ k \notin storage.garbled
  /\ storage' = [storage EXCEPT !.garbled = @ \cup {k}]
  /\ Step(FALSE, FALSE, NoResponse)
  /\ UNCHANGED <<scraperVars, intervals, rendered, modalCands, emptyCands, startsLeft,
                 pendingStarts, loadPc, loadI, oldHeight, tasks, modals, bg,
                 runNo, endedBy, result, completeEmits, threw, itemsAtPause,
                 resumedAfterPause, removedDuplicates, accepted, quietCycles, dispatched, expansion, resolved, content, pacing, stoppedShort,
                 deliveryVars>>

\* The callback of a scrapingComplete message runs: it creates the download
\* link when chrome.runtime.lastError is set. downloadLinks counts the links
\* of the latest run; the callback of an earlier run creates that run's link.
SendCallback ==
  /\ sendCallbacks # << >>
  /\ sendCallbacks' = Tail(sendCallbacks)
  /\ downloadLinks' = IF Head(sendCallbacks).fail /\ Head(sendCallbacks).run = runNo
                      THEN downloadLinks + 1
                      ELSE downloadLinks
  /\ Step(FALSE, FALSE, NoResponse)
  /\ UNCHANGED <<scraperVars, envVars, runNo, endedBy, result, completeEmits,
                 threw, itemsAtPause, resumedAfterPause, removedDuplicates, accepted, quietCycles, dispatched, expansion, resolved, content, pacing,
                 stoppedShort, channel, sendFailed>>

\* The messaging channel fails: the popup is closed and nothing listens
\* (lastError), or the extension context is invalidated (sendMessage throws).
ChannelFails(mode) ==
  /\ channel = "ok"
  /\ channel' = mode
  /\ Step(FALSE, FALSE, NoResponse)
  /\ UNCHANGED <<scraperVars, envVars, runNo, endedBy, result, completeEmits,
                 threw, itemsAtPause, resumedAfterPause, removedDuplicates, accepted, quietCycles, dispatched, expansion, resolved, content, pacing,
                 stoppedShort, sendCallbacks, downloadLinks, sendFailed>>

\* The scraper on the page: start and stop commands, timers, and the
\* pieces of loadMoreContent and of the initial extractions.
Control ==
  \/ \E c \in MessageCounts : StartScraping(c)
  \/ \E far \in BOOLEAN : StartInit(far)
  \/ \E far \in BOOLEAN : ObserverFires(far)
  \/ \E t \in intervals, far \in BOOLEAN : BackupTimerTick(t, far)
  \/ \E t \in intervals : ProgressTick(t)
  \/ \E t \in intervals : CleanupTick(t)
  \/ LoadScrollStep
  \/ LoadSettled
  \/ LoadBackoffDone
  \/ \E t \in tasks : ExtractionDone(t)
  \/ StopCollecting

PauseResume ==
  \/ PauseCollection
  \/ \E far \in BOOLEAN : ResumeCollection(far)

Modal == \E m \in modals : ModalExtracted(m)

Batches ==
  \/ \E q \in bg : BgBatchStart(q)
  \/ \E q \in bg : \E c \in q.pending : BgExtractionDone(q, c)

Queries ==
  \/ GetScrapingState
  \/ RequestData
  \/ RetrieveFromLocalStorage

\* A page of SmallFeed posts, the first of which opens in a modal view, and
\* a popup that pauses and resumes.
Init == InitOn(SmallFeed, {1}, MaxStarts)
Next == Control \/ PauseResume \/ Modal
Spec == Init /\ [][Next]_vars

\* A page that has rendered LargeFeed posts, more than one initial batch.
InitBatch == InitOn(LargeFeed, {}, MaxStarts)
NextBatch == Control \/ Batches
SpecBatch == InitBatch /\ [][NextBatch]_vars

\* A page of SmallFeed posts that keeps rendering posts, and a popup that
\* asks for the state and for the data.
InitQueries == InitOn(SmallFeed, {}, MaxStarts)
NextQueries == Control \/ Queries \/ FeedRenders
SpecQueries == InitQueries /\ [][NextQueries]_vars

\* A page of SingleFeed posts whose stored data can be damaged, and a popup
\* that asks for the data.
InitStorage == InitOn(SingleFeed, {}, MaxStarts)
NextStorage ==
  \/ Control
  \/ RequestData
  \/ RetrieveFromLocalStorage
  \/ \E k \in {"lastResult", "progressData"} : GarbleStorage(k)
SpecStorage == InitStorage /\ [][NextStorage]_vars

\* A page of SingleFeed posts and a messaging channel that can fail.
InitChannel == InitOn(SingleFeed, {}, MaxStarts)
NextChannel ==
  \/ Control
  \/ SendCallback
  \/ \E mode \in {"lastError", "throws"} : ChannelFails(mode)
SpecChannel == InitChannel /\ [][NextChannel]_vars

\* A page of SingleFeed posts and a popup that starts MaxRuns runs.
InitRuns == InitOn(SingleFeed, {}, MaxRuns)
NextRuns == Control
SpecRuns == InitRuns /\ [][NextRuns]_vars

\* One run on a page of HugeFeed posts, more than InitialBatchSize plus
\* BackgroundBatchSize: the scans of startCollecting and of its loading
\* cycle and the extractions they dispatch. Every extraction resolves and
\* the timer of processRemainingPosts fires. To bound the interleavings, an
\* extraction of the first batch resolves only after the queue of the scan
\* was worked off, the run is asked for QueueTarget posts and the page
\* is at its bottom.
InitQueue == InitOn(HugeFeed, {}, MaxStarts)
QueueDrained == bg = {}
NextQueue ==
  \/ StartScraping(QueueTarget)
  \/ StartInit(FALSE)
  \/ LoadSettled
  \/ (QueueDrained /\ \E t \in tasks : ExtractionDone(t))
  \/ Batches
SpecQueue ==
  /\ InitQueue /\ [][NextQueue]_vars
  /\ WF_vars(QueueDrained /\ \E t \in tasks : ExtractionDone(t))
  /\ WF_vars(\E q \in bg : BgBatchStart(q))
  /\ WF_vars(\E q \in bg : \E c \in q.pending : BgExtractionDone(q, c))

\* --------------------------------------------- content extraction of a post
\* expandSeemoreButtons from the top of a pass that finds `buttons` "see
\* more" buttons: it clicks the first one and awaits 500 ms, or, with no
\* button, leaves the loop.
ExpandPass(e, pass, buttons) ==
  IF buttons = 0
  THEN [e EXCEPT !.pc = "done", !.pass = pass, !.left = 0]
  ELSE [e EXCEPT !.pc = "clickWait", !.pass = pass, !.left = buttons - 1,
                 !.clicks = @ + 1]

\* expandSeemoreButtons after a button was handled: the next button of the
\* pass, or the 500 ms wait that ends the pass.
ExpandNext(e) ==
  IF e.left > 0
  THEN [e EXCEPT !.pc = "clickWait", !.left = @ - 1, !.clicks = @ + 1]
  ELSE [e EXCEPT !.pc = "passWait"]

\* extractPostContentAdvanced reads the text of the node in the turn in
\* which it called expandSeemoreButtons, which it does not await.
ReadNow(e) == [e EXCEPT !.textRead = TRUE, !.readAt = e.pc]

\* extractAllContent -> extractPostContentAdvanced on a post that shows
\* `buttons` "see more" buttons.
ExtractContent(buttons) ==
  /\ expansion.pc = "idle"
  /\ expansion' = ReadNow(ExpandPass(NoExpansion, 0, buttons))
  /\ UNCHANGED <<scraperVars, envVars, ghostVars, deliveryVars, resolved, content, pacing>>

\* The 500 ms after a click are over; the click has opened the post in a
\* modal view (extractFromModalView, Escape, another 500 ms) or not.
ClickSettled(modal) ==
  /\ expansion.pc = "clickWait"
  /\ expansion' = IF modal THEN [expansion EXCEPT !.pc = "modalWait"]
                  ELSE ExpandNext(expansion)
  /\ UNCHANGED <<scraperVars, envVars, ghostVars, deliveryVars, resolved, content, pacing>>

\* The 500 ms after the Escape key are over.
ModalClosed ==
  /\ expansion.pc = "modalWait"
  /\ expansion' = ExpandNext(expansion)
  /\ UNCHANGED <<scraperVars, envVars, ghostVars, deliveryVars, resolved, content, pacing>>

\* The 500 ms between two passes are over: the loop ends after MaxPasses
\* passes, else the next pass finds `buttons` buttons.
PassSettled(buttons) ==
  /\ expansion.pc = "passWait"
  /\ expansion' = IF expansion.pass + 1 >= MaxPasses
                  THEN [expansion EXCEPT !.pc = "done", !.pass = @ + 1]
                  ELSE ExpandPass(expansion, expansion.pass + 1, buttons)
  /\ UNCHANGED <<scraperVars, envVars, ghostVars, deliveryVars, resolved, content, pacing>>

\* The extraction of the next post begins.
NextPost ==
  /\ expansion.pc = "done"
  /\ expansion' = NoExpansion
  /\ UNCHANGED <<scraperVars, envVars, ghostVars, deliveryVars, resolved, content, pacing>>

InitExpand == InitOn(SingleFeed, {}, MaxStarts)
NextExpand ==
  \/ \E buttons \in 0 .. MaxButtons : ExtractContent(buttons)
  \/ \E modal \in BOOLEAN : ClickSettled(modal)
  \/ ModalClosed
  \/ \E buttons \in 0 .. MaxButtons : PassSettled(buttons)
  \/ NextPost
SpecExpand == InitExpand /\ [][NextExpand]_vars

\* ------------------------------------------------- identity of a post node
\* An identifier or a piece of text is a sequence of character codes; the
\* empty sequence is the empty string, which JavaScript takes for false.
NoText == << >>
Underscore == <<95>>

\* A node handed to extractPostId.
\*   kind    "element": a DOM element; "textless": an object whose
\*           textContent cannot be sliced; "null": no object at all
\*   dataFt  the data-ft attribute: parse is "none" (no attribute),
\*           "garbled" (JSON.parse throws) or "object", then with the
\*           top_level_post_id and content_owner_id_new it carries
\*   links   per permalink selector, in the order of the code, the first
\*           link querySelector finds for it and the digits each of the
\*           three patterns captures in its href
\*   author, text   the text of the author link and of the node
NoDataFt == [parse |-> "none", top |-> NoText, owner |-> NoText]
GarbledDataFt == [parse |-> "garbled", top |-> NoText, owner |-> NoText]
DataFt(top, owner) == [parse |-> "object", top |-> top, owner |-> owner]
NoLink == [found |-> FALSE, permalink |-> NoText, posts |-> NoText,
           story |-> NoText]
Link(permalink, posts, story) ==
  [found |-> TRUE, permalink |-> permalink, posts |-> posts, story |-> story]

\* String.prototype.trim on character codes (32 is the space).
RECURSIVE TrimStart(_)
TrimStart(s) ==
  IF s # << >> /\ Head(s) = 32 THEN TrimStart(Tail(s)) ELSE s
RECURSIVE TrimEnd(_)
TrimEnd(s) ==
  IF s # << >> /\ s[Len(s)] = 32 THEN TrimEnd(SubSeq(s, 1, Len(s) - 1)) ELSE s
Trim(s) == TrimEnd(TrimStart(s))

\* Number.prototype.toString(16) of a number that is not negative, as the
\* sequence of its hexadecimal digits.
RECURSIVE Hex(_)
Hex(n) == IF n < 16 THEN <<n>> ELSE Append(Hex(n \div 16), n % 16)

\* The hash loop of createContentFingerprint: hash = (hash << 5) - hash +
\* char, then hash & hash. The strings hashed here have at most
\* MaxAuthor + 1 + MaxText characters, for which the value stays below
\* 2^31 and the conversion to 32 bits leaves it as it is.
RECURSIVE HashFrom(_, _)
HashFrom(hash, str) ==
  IF str = << >> THEN hash
  ELSE HashFrom(hash * 32 - hash + Head(str), Tail(str))

\* createContentFingerprint: the hash of "<author>_<first 100 characters of
\* the text, trimmed>" in hexadecimal, or null (NoText here) when reading
\* the node throws.
createContentFingerprint(node) ==
  IF node.kind # "element" THEN NoText
  ELSE LET text == Trim(SubSeq(node.text, 1, Min(Len(node.text), TextSlice)))
           authorName == Trim(node.author)
           hash == HashFrom(0, authorName \o Underscore \o text)
       IN  Hex(IF hash < 0 THEN -hash ELSE hash)

\* The identifiers extractPostId returns: a value found in the node as it
\* is, "content_" and a fingerprint, or "generated_", the time and a random
\* string (rnd stands for both).
Found(value) == [prefix |-> "", body |-> value]
Generated(rnd) == [prefix |-> "generated_", body |-> <<rnd>>]

\* extractPostId, first step: top_level_post_id of the parsed data-ft, else
\* its content_owner_id_new; nothing when the attribute is missing or
\* JSON.parse throws.
FromDataFt(node) ==
  IF node.dataFt.parse # "object" THEN NoText
  ELSE IF node.dataFt.top # NoText THEN node.dataFt.top
  ELSE node.dataFt.owner

\* The three patterns tried in order on the href of one link.
FromLink(link) ==
  IF link.permalink # NoText THEN link.permalink
  ELSE IF link.posts # NoText THEN link.posts
  ELSE link.story

\* extractPostId, second step: the selectors in order, for each the first
\* link it finds; the first link with a numeric id decides.
FromLinks(node) ==
  LET hits == {k \in 1 .. Len(node.links) :
                 node.links[k].found /\ FromLink(node.links[k]) # NoText}
  IN  IF hits = {} THEN NoText
      ELSE FromLink(node.links[CHOOSE k \in hits : \A j \in hits : k <= j])

\* extractPostId, third and fourth step: "content_" and the fingerprint,
\* or a generated identifier when there is no fingerprint.
FromContentRandom(node, rnd) == Generated(rnd)
FromContent(node, rnd) ==
  LET contentFingerprint == createContentFingerprint(node)
  IN  IF contentFingerprint # NoText
      THEN [prefix |-> "content_", body |-> contentFingerprint]
      ELSE Generated(rnd)

\* extractPostId: an exception anywhere (getAttribute of null) ends in the
\* outer catch, which returns a generated identifier.
extractPostIdLinksFirst(node, rnd) ==
  IF node.kind = "null" THEN Generated(rnd)
  ELSE IF FromLinks(node) # NoText THEN Found(FromLinks(node))
  ELSE IF FromDataFt(node) # NoText THEN Found(FromDataFt(node))
  ELSE FromContent(node, rnd)
extractPostId(node, rnd) ==
  IF node.kind = "null" THEN Generated(rnd)
  ELSE IF FromDataFt(node) # NoText THEN Found(FromDataFt(node))
  ELSE IF FromLinks(node) # NoText THEN Found(FromLinks(node))
  ELSE FromContent(node, rnd)

\* The sample nodes: elements with every combination of the data-ft values,
\* links and texts below, a few objects without a text, and null.
SampleDataFt ==
  {NoDataFt, GarbledDataFt, DataFt(NoText, NoText), DataFt(<<49>>, NoText),
   DataFt(<<50>>, <<55>>), DataFt(NoText, <<55>>)}
SampleLinks ==
  {<<l1, l2, l3>> :
     l1 \in {NoLink, Link(NoText, NoText, NoText), Link(<<49>>, NoText, NoText),
             Link(<<50>>, NoText, <<51>>)},
     l2 \in {NoLink, Link(NoText, <<50>>, NoText)},
     l3 \in {NoLink, Link(NoText, NoText, <<51>>)}}
SampleTexts == {NoText, <<97>>, <<32, 97, 32>>}
NoLinks == <<NoLink, NoLink, NoLink>>
NullNode == [kind |-> "null", dataFt |-> NoDataFt, links |-> NoLinks,
             author |-> NoText, text |-> NoText]
SampleNodes ==
  {[kind |-> "element", dataFt |-> d, links |-> l, author |-> NoText,
    text |-> t] : d \in SampleDataFt, l \in SampleLinks, t \in SampleTexts}
    \cup {[kind |-> "textless", dataFt |-> d, links |-> l, author |-> NoText,
           text |-> NoText] :
            d \in {NoDataFt, DataFt(<<49>>, NoText)},
            l \in {NoLinks, <<Link(<<50>>, NoText, <<51>>), NoLink, NoLink>>}}
    \cup {NullNode}

\* One call of extractPostId on a sample node.
Resolve(node, rnd) ==
  /\ Len(resolved) < MaxResolved
  /\ resolved' = Append(resolved, [node |-> node,
                                   id |-> extractPostId(node, rnd)])
  /\ UNCHANGED <<scraperVars, envVars, ghostVars, deliveryVars, expandVars,
                 content, pacing>>

\* getPosts on the node of the j-th call: it takes the node as new when
\* processedIds, which holds the identifier of every earlier call, does not
\* have its identifier.
AcceptedAsNew(j) == resolved[j].id \notin {resolved[k].id : k \in 1 .. j - 1}

InitIdentity == InitOn(SingleFeed, {}, MaxStarts)
NextIdentity == \E node \in SampleNodes, rnd \in 1 .. MaxRandom : Resolve(node, rnd)
SpecIdentity == InitIdentity /\ [][NextIdentity]_vars

\* ------------------------------------------------ body text of one post
\* String.prototype.includes on character codes.
Includes(str, part) ==
  \E i \in 1 .. Len(str) - Len(part) + 1 :
    SubSeq(str, i, i + Len(part) - 1) = part

\* String.prototype.toLowerCase on the letters A-Z.
ToLowerCase(str) ==
  [i \in 1 .. Len(str) |-> IF str[i] \in 65 .. 90 THEN str[i] + 32 ELSE str[i]]

\* The characters the pattern \W does not match: letters, digits, "_".
IsWordChar(c) == c \in (48 .. 57) \cup (65 .. 90) \cup (97 .. 122) \cup {95}

\* new Set(str.split(/\W+/)): the maximal runs of word characters, and the
\* empty string when str is empty or begins or ends with another character.
WordSet(str) ==
  LET runs == {r \in (1 .. Len(str)) \X (1 .. Len(str)) :
                 /\ r[1] <= r[2]
                 /\ \A k \in r[1] .. r[2] : IsWordChar(str[k])
                 /\ (r[1] = 1 \/ ~IsWordChar(str[r[1] - 1]))
                 /\ (r[2] = Len(str) \/ ~IsWordChar(str[r[2] + 1]))}
      ends == IF str = << >> \/ ~IsWordChar(str[1])
                 \/ ~IsWordChar(str[Len(str)])
              THEN {<< >>} ELSE {}
  IN  {SubSeq(str, r[1], r[2]) : r \in runs} \cup ends

\* calculateSimilarity as the fraction num / den: 0 when the lengths differ
\* by more than 0.3 of the longer one, else the common words over all words
\* of the two strings.
calculateSimilarity(str1, str2) ==
  LET diff == IF Len(str1) > Len(str2) THEN Len(str1) - Len(str2)
              ELSE Len(str2) - Len(str1)
      set1 == WordSet(ToLowerCase(str1))
      set2 == WordSet(ToLowerCase(str2))
      common == Cardinality(set1 \cap set2)
  IN  IF 10 * diff > 3 * Max(Len(str1), Len(str2))
      THEN [num |-> 0, den |-> 1]
      ELSE [num |-> common,
            den |-> Cardinality(set1) + Cardinality(set2) - common]

\* Array.prototype.sort((a, b) => b.length - a.length): longest first, and
\* pieces of the same length in the order they had (the sort is stable).
RECURSIVE SortByLength(_)
SortByLength(array) ==
  IF array = << >> THEN << >>
  ELSE LET last == array[Len(array)]
           sorted == SortByLength(SubSeq(array, 1, Len(array) - 1))
           k == Cardinality({i \in 1 .. Len(sorted) :
                               Len(sorted[i]) >= Len(last)})
       IN  SubSeq(sorted, 1, k) \o <<last>> \o SubSeq(sorted, k + 1, Len(sorted))

\* The test of the filter in extractAllContent: a piece before `index` is
\* more than 1.2 times as long as the piece at `index` and contains it or
\* is similar to it by more than 0.85.
IsDuplicate(array, index) ==
  \E p \in 1 .. index - 1 :
    /\ 5 * Len(array[p]) > 6 * Len(array[index])
    /\ \/ Includes(array[p], array[index])
       \/ LET similarity == calculateSimilarity(array[p], array[index])
          IN  100 * similarity.num > 85 * similarity.den

\* Array.prototype.filter with that test.
RECURSIVE FilterFrom(_, _)
FilterFrom(array, index) ==
  IF index > Len(array) THEN << >>
  ELSE (IF IsDuplicate(array, index) THEN << >> ELSE <<array[index]>>)
         \o FilterFrom(array, index + 1)

\* The end of extractAllContent: the pieces of allContent sorted, filtered
\* and joined with blank lines (the body is kept as the pieces it joins).
BodyOf(found) == FilterFrom(SortByLength(found), 1)

\* Sample pieces of text: "aa", "aaaaaa", "aaaaaab", "bb",
\* "a b c d e f" and "ggg f e d c b a".
SamplePieces ==
  {<<97, 97>>, <<97, 97, 97, 97, 97, 97>>, <<97, 97, 97, 97, 97, 97, 98>>,
   <<98, 98>>, <<97, 32, 98, 32, 99, 32, 100, 32, 101, 32, 102>>,
   <<103, 103, 103, 32, 102, 32, 101, 32, 100, 32, 99, 32, 98, 32, 97>>}

\* The contents an allContent set can have: at most MaxPieces distinct
\* pieces in the order they were added.
RECURSIVE Arrangements(_, _)
Arrangements(pieces, n) ==
  {<< >>} \cup
    (IF n = 0 THEN {}
     ELSE UNION {{<<p>> \o rest : rest \in Arrangements(pieces \ {p}, n - 1)} :
                   p \in pieces})

\* extractAllContent on a post in which the three extraction methods find
\* the pieces `found`.
ExtractAllContent(found) ==
  /\ ~content.called
  /\ content' = [called |-> TRUE, found |-> found, body |-> BodyOf(found)]
  /\ UNCHANGED <<scraperVars, envVars, ghostVars, deliveryVars, expandVars,
                 identityVars, pacing>>

\* The extraction of the next post begins.
NextContent ==
  /\ content.called
  /\ content' = NoContent
  /\ UNCHANGED <<scraperVars, envVars, ghostVars, deliveryVars, expandVars,
                 identityVars, pacing>>

InitContent == InitOn(SingleFeed, {}, MaxStarts)
NextBody ==
  \/ \E found \in Arrangements(SamplePieces, MaxPieces) : ExtractAllContent(found)
  \/ NextContent
SpecContent == InitContent /\ [][NextBody]_vars

\* ------------------------------------------- settle delay of a loading cycle
\* Milliseconds a scan can take.
ScanTimes == {0, 300}

\* Math.max(500, Math.min(2000, lastLoadTime)).
Timeout(lastLoadTime) == Max(MinTimeout, Min(MaxTimeout, lastLoadTime))

\* loadMoreContent() up to its first await, on the fields p: nothing while
\* a cycle is under way or the run is paused; else the scroll loop when the
\* bottom of the page is far, or the timeout taken from lastLoadTime.
PaceLoad(p, far) ==
  IF p.pc # "idle" \/ p.isPaused THEN p
  ELSE IF far
  THEN [p EXCEPT !.pc = "scroll", !.cycleOfRun = Min(@ + 1, 2)]
  ELSE [p EXCEPT !.pc = "settle", !.cycleOfRun = Min(@ + 1, 2),
                 !.timeout = Timeout(p.lastLoadTime)]

\* startCollecting after its wait, for a count above 0: the reset of the
\* run, then loadMoreContent().
PaceStartCollecting(far) ==
  /\ ~pacing.isCollecting
  /\ pacing' = PaceLoad([pacing EXCEPT !.isCollecting = TRUE,
                                       !.isPaused = FALSE,
                                       !.lastLoadTime = InitialLoadTime,
                                       !.cycleOfRun = 0,
                                       !.measured = -1], far)
  /\ UNCHANGED <<scraperVars, envVars, ghostVars, deliveryVars, expandVars,
                 identityVars, contentVars>>

\* The observer or the backup timer calls loadMoreContent().
PaceTrigger(far) ==
  /\ pacing.isCollecting /\ ~pacing.isPaused /\ pacing.pc = "idle"
  /\ pacing' = PaceLoad(pacing, far)
  /\ UNCHANGED <<scraperVars, envVars, ghostVars, deliveryVars, expandVars,
                 identityVars, contentVars>>

\* The scroll loop of loadMoreContent() is over: the timeout is taken.
PaceScrolled ==
  /\ pacing.pc = "scroll"
  /\ pacing' = [pacing EXCEPT !.pc = "settle",
                              !.timeout = Timeout(pacing.lastLoadTime)]
  /\ UNCHANGED <<scraperVars, envVars, ghostVars, deliveryVars, expandVars,
                 identityVars, contentVars>>

\* loadMoreContent() after the settle delay, and after the backoff wait
\* when the cycle was the third without new content: unless the run is
\* paused, the scan, which takes `scan` ms, and the measurement.
PaceSettled(backoff, scan) ==
  /\ pacing.pc = "settle"
  /\ LET elapsed == pacing.timeout + (IF backoff THEN BackoffWait ELSE 0) + scan
     IN  pacing' = IF pacing.isPaused
                   THEN [pacing EXCEPT !.pc = "idle", !.timeout = 0,
                                       !.measured = -1]
                   ELSE [pacing EXCEPT !.pc = "idle", !.timeout = 0,
                                       !.measured = elapsed,
                                       !.lastLoadTime = elapsed]
  /\ UNCHANGED <<scraperVars, envVars, ghostVars, deliveryVars, expandVars,
                 identityVars, contentVars>>

\* pauseCollection().
PacePause ==
  /\ pacing.isCollecting
  /\ pacing' = [pacing EXCEPT !.isPaused = TRUE]
  /\ UNCHANGED <<scraperVars, envVars, ghostVars, deliveryVars, expandVars,
                 identityVars, contentVars>>

\* resumeCollection() of a run below its target.
PaceResume(far) ==
  /\ pacing.isCollecting
  /\ pacing' = PaceLoad([pacing EXCEPT !.isPaused = FALSE], far)
  /\ UNCHANGED <<scraperVars, envVars, ghostVars, deliveryVars, expandVars,
                 identityVars, contentVars>>

\* stopCollecting(): it leaves a cycle that is under way alone.
PaceStop ==
  /\ pacing' = [pacing EXCEPT !.isCollecting = FALSE, !.isPaused = FALSE]
  /\ UNCHANGED <<scraperVars, envVars, ghostVars, deliveryVars, expandVars,
                 identityVars, contentVars>>

InitPacing == InitOn(SingleFeed, {}, MaxStarts)
NextPacing ==
  \/ \E far \in BOOLEAN : PaceStartCollecting(far)
  \/ \E far \in BOOLEAN : PaceTrigger(far)
  \/ PaceScrolled
  \/ \E backoff \in BOOLEAN, scan \in ScanTimes : PaceSettled(backoff, scan)
  \/ PacePause
  \/ \E far \in BOOLEAN : PaceResume(far)
  \/ PaceStop
SpecPacing == InitPacing /\ [][NextPacing]_vars

\* A page of SmallFeed posts and a popup that asks for the state of the
\* scraper at any time.
InitReports == InitOn(SmallFeed, {}, MaxStarts)
NextReports == Control \/ GetScrapingState
SpecReports == InitReports /\ [][NextReports]_vars

\* A page with a single post and a popup that starts MaxRuns runs, one
\* after the other has ended, and requests the data at any time.
InitRequests == InitOn(SingleFeed, {}, MaxRuns)
NextRequests == Control \/ RequestData
SpecRequests == InitRequests /\ [][NextRequests]_vars

\* The same runs under the scheduling of the event loop: a timeout that
\* loadMoreContent awaits fires, and an interval timer that was not cleared
\* keeps ticking.
TimersFire ==
  /\ WF_vars(LoadScrollStep)
  /\ WF_vars(LoadSettled)
  /\ WF_vars(LoadBackoffDone)
  /\ WF_vars(\E t \in intervals, far \in BOOLEAN : BackupTimerTick(t, far))
  /\ WF_vars(\E t \in intervals : ProgressTick(t))
SpecFair == SpecRuns /\ TimersFire

\* ----------------------------------------------------------------- claims
\* One run on a page whose second post is an empty article.
InitEmpty == InitWith(SmallFeed, {}, {2}, MaxStarts)
NextEmpty == Control
SpecEmpty == InitEmpty /\ [][NextEmpty]_vars

\* ================================================================ claims
PostIds(posts) == {posts[i].postId : i \in 1 .. Len(posts)}

\* C1: when a run started with a positive target count completes, the posts
\* list of its result has at most target-count entries.
C1_ResultWithinTarget ==
  (endedBy = "complete" /\ postsToCollect > 0)
    => Len(result.posts) <= postsToCollect
\* A run completed holding more distinct posts than its target.
C1_Trimmed ==
  /\ endedBy = "complete"
  /\ postsToCollect > 0
  /\ result.totalScraped > postsToCollect
  /\ Len(result.posts) = postsToCollect

\* C2: no two posts of the result emitted at completion have the same
\* postId, whichever scans and modal extractions filled the collection.
C2_DistinctIds ==
  endedBy = "complete"
    => \A i, j \in 1 .. Len(result.posts) :
         i # j => result.posts[i].postId # result.posts[j].postId
\* A run completed whose collection held the same post twice.
C2_DuplicatesRemoved ==
  /\ endedBy = "complete"
  /\ removedDuplicates > 0
  /\ Len(result.posts) > 1

\* C3: a start command that arrives while a run is collecting is rejected:
\* it begins no run and leaves the target, the collection, the identifier
\* set and the timers as they are.
C3_StartRejected ==
  [][(isCollecting /\ response'.kind = "started")
       => UNCHANGED <<scraperVars, intervals, pendingStarts, runNo>>]_vars
\* A start command was answered while a run with posts was collecting.
C3_StartWhileCollecting ==
  /\ response.kind = "started"
  /\ isCollecting
  /\ Len(scrapedPosts) > 0
  /\ pendingStarts = << >>

\* C4: after stopCollecting no scan runs and neither the collection nor the
\* identifier set is modified until the next accepted start, also when a
\* loadMoreContent call or an extraction was in flight at the stop.
C4_NothingAfterStop ==
  [][(endedBy = "stop" /\ endedBy' = "stop" /\ pendingStarts = << >>)
       => /\ ~didScan'
          /\ scrapedPosts' = scrapedPosts
          /\ processedIds' = processedIds]_vars

\* C5: when a run was stopped before it reached its target, a later data
\* request (requestData, or the popup's localStorage fallback) returns a
\* partial result that carries partialData: true.
C5_PartialAfterStop ==
  (stoppedShort /\ endedBy = "stop" /\ response.kind \in {"data", "retrieved"})
    => /\ response.success
       /\ response.data.partialData
       /\ ~response.data.isComplete

\* C6: a run that reaches its target emits scrapingComplete exactly once,
\* and no run emits it more than once, whether the progress timer or the
\* background batch processor sees the target first.
C6_CompleteOnce ==
  /\ completeEmits <= 1
  /\ endedBy = "complete" => completeEmits = 1
\* A run completed while its progress timer is still alive: the batch
\* processor saw the target first and the timer will tick again.
C6_BatchFinishedFirst ==
  /\ endedBy = "complete"
  /\ completeEmits = 1
  /\ [kind |-> "progress", id |-> progressInterval] \in intervals

\* C7: stopCollecting never throws, whatever the state, and leaves the
\* scraper not collecting, not paused and with the same collection; a
\* second call right after the first changes nothing.
C7_StopSafeIdempotent ==
  [][response'.kind = "stopped"
       => /\ ~threw'
          /\ ~isCollecting' /\ ~isPaused'
          /\ scrapedPosts' = scrapedPosts
          /\ (response.kind = "stopped"
                => UNCHANGED <<scraperVars, intervals>>)]_vars
\* stopCollecting was called on a scraper that was already stopped.
C7_StoppedTwice ==
  /\ response.kind = "stopped"
  /\ response.phase = "stop"
  /\ Len(scrapedPosts) > 0

\* C8: while a run is paused no scroll step is issued and no scan starts,
\* whichever trigger fires and also when a loadMoreContent call was in
\* flight at the pause.
C8_PausedNoLoadNoScan ==
  [][(isCollecting /\ isPaused /\ isPaused')
       => (~didScan' /\ ~didScroll')]_vars
\* A run is paused while a loadMoreContent call is in flight.
C8_PausedInFlight ==
  /\ isCollecting
  /\ isPaused
  /\ loadPc \in {"scroll", "settle", "backoff"}

\* C9: when a pause was followed by a resume, every post that was in the
\* collection at the pause is in the final result of the run (stated for
\* the runs with a positive target).
C9_PauseKeepsItems ==
  (endedBy = "complete" /\ resumedAfterPause /\ postsToCollect > 0)
    => itemsAtPause \subseteq PostIds(result.posts)

\* C10: handling getScrapingState changes neither the flags, the target,
\* the collection, the identifier set nor the timers.
C10_GetStateReadOnly ==
  [][response'.kind = "state"
       => UNCHANGED <<scraperVars, intervals, storage>>]_vars
\* The state was asked of a collecting run that holds posts.
C10_StateOfCollectingRun ==
  /\ response.kind = "state"
  /\ response.isCollecting
  /\ response.currentCount > 0

\* C11: an accepted start that has initialised its run leaves the scraper
\* collecting and not paused, with an empty collection, an identifier set
\* that holds only what the run's first scan found, the target equal to the
\* requested count, and no interval timer of an earlier run alive (stated
\* for a start that initialises while no run is collecting).
C11_StartResets ==
  [][(runNo' # runNo /\ ~isCollecting)
       => /\ isCollecting' /\ ~isPaused'
          /\ scrapedPosts' = << >>
          /\ processedIds' = Scan({}).ids
          /\ postsToCollect' = Head(pendingStarts)
          /\ \A t \in intervals' : t.id = runNo']_vars

\* C12: once a run has been stopped or has emitted its completion event, no
\* progress event is emitted until another run is initialised.
C12_NoProgressAfterEnd ==
  [][(endedBy \in {"stop", "complete"})
       => (response'.kind # "progress")]_vars

\* C13: when the page shows at least target-count distinct posts and the
\* run completes, its result has exactly target-count posts, no two with the
\* same postId, and is marked isComplete.
C13_ExactlyTarget ==
  (endedBy = "complete" /\ postsToCollect > 0 /\ rendered >= postsToCollect)
    => /\ Len(result.posts) = postsToCollect
       /\ Cardinality(PostIds(result.posts)) = Len(result.posts)
       /\ result.isComplete

\* C14: when the stored data cannot be parsed, requestData and the popup's
\* localStorage fallback answer that no data is available, no exception
\* escapes, and the scraper's state is unchanged.
C14_GarbledIsNoData ==
  [][(StoredGarbled /\ response'.kind \in {"data", "retrieved"})
       => /\ ~response'.success
          /\ response'.data = NoData
          /\ ~threw'
          /\ UNCHANGED scraperVars]_vars
\* requestData was answered while the stored result was not valid JSON.
C14_RequestOnGarbled ==
  /\ StoredGarbled
  /\ storage.lastResult.present
  /\ response.kind = "data"
  /\ ~response.success

\* C15: when the scrapingComplete message of a completed run could not be
\* delivered, the result is in local storage, the download link is created
\* at most once, and exactly once as soon as no callback of the run is
\* outstanding.
C15_FallbackOnce ==
  (endedBy = "complete" /\ sendFailed)
    => /\ storage.lastResult = result
       /\ downloadLinks <= 1
       /\ (\A i \in 1 .. Len(sendCallbacks) : sendCallbacks[i].run # runNo)
            => downloadLinks = 1
\* A run completed while sendMessage threw, and the link was created.
C15_LinkAfterThrow ==
  /\ endedBy = "complete"
  /\ sendFailed
  /\ channel = "throws"
  /\ downloadLinks = 1

\* C16: a progress tick of a collecting run stores a snapshot of the flags,
\* the target and the current count, and a partial result marked
\* isComplete: false whose posts are the collection at that tick; once
\* stored, a partial result stays available until the run completes.
C16_Checkpoint ==
  [][/\ (response'.kind = "progress" /\ isCollecting /\ isCollecting')
          => /\ storage'.state =
                  [present |-> TRUE, isCollecting |-> TRUE,
                   isPaused |-> isPaused, postsToCollect |-> postsToCollect,
                   scrapedPostsCount |-> Len(scrapedPosts)]
             /\ storage'.progressData =
                  [present |-> TRUE, posts |-> scrapedPosts,
                   totalScraped |-> Len(scrapedPosts),
                   isComplete |-> FALSE, partialData |-> FALSE]
     /\ (/\ storage.progressData.present
         /\ ~storage.progressData.isComplete
         /\ runNo' = runNo
         /\ endedBy' # "complete")
          => /\ storage'.progressData.present
             /\ ~storage'.progressData.isComplete]_vars
\* A tick of a paused run stored a checkpoint that holds posts.
C16_CheckpointWhilePaused ==
  /\ response.kind = "progress"
  /\ isCollecting /\ isPaused
  /\ storage.state.isPaused
  /\ ~storage.progressData.isComplete
  /\ Len(storage.progressData.posts) > 0

\* C17: a record with empty body text, no media and no replies is never
\* appended to the collection.
C17_EmptyNeverAppended ==
  \A i \in 1 .. Len(scrapedPosts) : ~scrapedPosts[i].empty

\* C18: when a run that accepted more than targetCount distinct posts
\* completes, the posts of its result are the first targetCount of them in
\* the order of acceptance.
C18_EarliestKept ==
  (endedBy = "complete" /\ postsToCollect > 0 /\ Len(accepted) > postsToCollect)
    => [i \in 1 .. Len(result.posts) |-> result.posts[i].postId]
         = SubSeq(accepted, 1, postsToCollect)

\* C19: at every moment the collection holds no two records with the same
\* identifier.
C19_NoDuplicateInCollection ==
  Cardinality(PostIds(scrapedPosts)) = Len(scrapedPosts)

\* C20: once no extraction is in flight, every identifier of processedIds
\* belongs to exactly one record of the collection, and the identifier of
\* every record of the collection is in processedIds.
C20_IdsMatchItems ==
  (tasks = {} /\ modals = {} /\ bg = {})
    => /\ \A id \in processedIds :
            Cardinality({i \in 1 .. Len(scrapedPosts) :
                           scrapedPosts[i].postId = id}) = 1
       /\ PostIds(scrapedPosts) \subseteq processedIds

\* How far the loading cycle has got: scroll steps, settle delay, backoff,
\* done.
LoadRank(pc, i) ==
  IF pc = "scroll" THEN i
  ELSE IF pc = "settle" THEN ScrollSteps + 1
  ELSE IF pc = "backoff" THEN ScrollSteps + 2
  ELSE ScrollSteps + 3

\* C21: there is one loading cycle at a time: while the loading flag is set
\* the cycle only moves forward (no trigger restarts it), the flag is set
\* exactly while a cycle is in progress, and every cycle that starts clears
\* the flag in the end.
C21_OneLoadingCycle ==
  /\ [](isLoading <=> loadPc # "idle")
  /\ [][isLoading => LoadRank(loadPc', loadI') >= LoadRank(loadPc, loadI)]_vars
  /\ (isLoading ~> ~isLoading)
\* A start command was handled while an earlier cycle was in its second
\* scroll step, and the cycle is where it was.
C21_StartDuringLoading ==
  /\ didScan /\ runNo = 2
  /\ isLoading /\ loadPc = "scroll" /\ loadI = 2

\* C22: in the first run on the page, with no post accepted yet, the third
\* consecutive loading cycle that ends with no growth of the page and no new
\* post surfaces the stall diagnostic and enters the backoff wait, and the
\* run goes on collecting.
C22_ThirdStallSurfaces ==
  [][(/\ loadPc = "settle" /\ loadPc' # "settle"
      /\ runNo = 1 /\ accepted = << >> /\ scrapedPosts = << >>
      /\ quietCycles' >= StallLimit)
       => (loadPc' = "backoff" /\ isCollecting' = isCollecting)]_vars

\* C23: whenever a run is collecting, not paused, below its target and not
\* loading, a loading cycle starts later on (or the run stops collecting, is
\* paused or reaches its target), with no help from the sentinel observer.
C23_KeepsRetrying ==
  (isCollecting /\ ~isPaused /\ ~isLoading
     /\ Len(scrapedPosts) < postsToCollect)
    ~> (isLoading \/ ~isCollecting \/ isPaused
          \/ Len(scrapedPosts) >= postsToCollect)
\* A new cycle is under way in a run that is below its target after
\* StallLimit stalled cycles in a row.
C23_CycleAfterStalls ==
  /\ isCollecting /\ ~isPaused
  /\ Len(scrapedPosts) < postsToCollect
  /\ consecutiveNoNewContentCount = StallLimit
  /\ isLoading /\ loadPc \in {"scroll", "settle"}

C25_DispatchedOnce ==
  /\ [](\A x \in DOMAIN dispatched : dispatched[x] = 1)
  /\ [](\A c \in 1 .. rendered :
          (runNo > 0 /\ IdOf(c) \in processedIds)
            => ([cand |-> c, run |-> runNo] \in DOMAIN dispatched)
                 # (\E q \in bg : q.run = runNo /\ c \in SeqSet(q.rest)))
  /\ [][/\ Cardinality(tasks' \ tasks) <= InitialBatchSize
        /\ \A q \in bg' \ bg : Cardinality(q.pending) <= BackgroundBatchSize]_vars
  /\ ((bg # {}) ~> (bg = {}))
\* A full batch of the queue is being extracted while the queue still holds
\* a candidate.
C25_FullBatchPending ==
  \E q \in bg : /\ Cardinality(q.pending) = BackgroundBatchSize
                /\ q.rest # << >>

\* C26: the posts of a run that come from the feed stand in the collection
\* in the order in which the scans took their candidates as new (the order
\* of the candidates in the document).
C26_ScanOrder ==
  \A i, j \in 1 .. Len(scrapedPosts) :
    (/\ i < j
     /\ scrapedPosts[i].run = scrapedPosts[j].run
     /\ ~scrapedPosts[i].fromModal /\ ~scrapedPosts[j].fromModal)
      => scrapedPosts[i].postId <= scrapedPosts[j].postId

\* C27: when the text of a post has been read, expandSeemoreButtons had
\* clicked every button and its waits were over; it makes at most MaxPasses
\* passes.
C27_ReadAfterExpansion ==
  /\ expansion.textRead => expansion.readAt = "done"
  /\ expansion.pass <= MaxPasses

\* C28: every call of extractPostId returns an identifier that is not
\* empty, and the first source that yields one decides: an identifier of
\* the parsed data-ft, else a numeric id of a permalink, posts or story_fbid
\* link, else "content_" and the fingerprint, else a generated identifier;
\* a node that cannot be read at all gets a generated identifier too.
C28_FixedOrder ==
  \A i \in 1 .. Len(resolved) :
    LET node == resolved[i].node
        id == resolved[i].id
        inDataFt == IF node.dataFt.parse = "object"
                    THEN {node.dataFt.top, node.dataFt.owner} \ {NoText}
                    ELSE {}
        inLinks == UNION {{l.permalink, l.posts, l.story} \ {NoText} :
                            l \in {node.links[k] : k \in 1 .. Len(node.links)}}
    IN  /\ id.body # NoText
        /\ id.prefix \in {"", "content_", "generated_"}
        /\ node.kind = "null" => id.prefix = "generated_"
        /\ (node.kind # "null" /\ inDataFt # {})
             => id.prefix = "" /\ id.body \in inDataFt
        /\ (node.kind # "null" /\ inDataFt = {} /\ inLinks # {})
             => id.prefix = "" /\ id.body \in inLinks
        /\ (node.kind = "element" /\ inDataFt = {} /\ inLinks = {})
             => id.prefix = "content_"
        /\ (node.kind = "textless" /\ inDataFt = {} /\ inLinks = {})
             => id.prefix = "generated_"
\* A node with a top_level_post_id, a permalink with another id and a text
\* was resolved to its top_level_post_id.
C28_DataFtBeatsLink ==
  \E i \in 1 .. Len(resolved) :
    /\ resolved[i].node.kind = "element"
    /\ resolved[i].node.dataFt.top = <<50>>
    /\ resolved[i].node.links[1].permalink = <<49>>
    /\ resolved[i].node.text # NoText
    /\ resolved[i].id = Found(<<50>>)

\* C29: two calls of extractPostId on the same element, unchanged in its
\* attributes, links and text, return the same identifier, so the scan
\* that makes the second call does not take the element as new.
C29_SameNodeSameId ==
  \A i, j \in 1 .. Len(resolved) :
    (/\ i < j
     /\ resolved[i].node = resolved[j].node
     /\ resolved[i].node.kind = "element")
      => /\ resolved[j].id = resolved[i].id
         /\ ~AcceptedAsNew(j)
\* An element without an identifier in its data-ft or its links was
\* resolved twice, both times to "content_" and its fingerprint.
C29_FingerprintTwice ==
  /\ Len(resolved) = 2
  /\ resolved[1].node = resolved[2].node
  /\ resolved[1].node.kind = "element"
  /\ resolved[1].node.text # NoText
  /\ FromDataFt(resolved[1].node) = NoText
  /\ FromLinks(resolved[1].node) = NoText
  /\ resolved[1].id.prefix = "content_"
  /\ resolved[2].id.prefix = "content_"

\* C30: two elements that each expose a post identifier of their own, both
\* a top_level_post_id or, with none in either, both a numeric id in a
\* permalink, posts or story_fbid link, and whose identifiers differ, are
\* resolved to different identifiers, and the scan takes the second one as
\* new.
C30_OwnIdsKeptApart ==
  \A i, j \in 1 .. Len(resolved) :
    LET a == resolved[i].node
        b == resolved[j].node
    IN  (/\ i < j
         /\ a.kind = "element" /\ b.kind = "element"
         /\ \/ /\ a.dataFt.top # NoText /\ b.dataFt.top # NoText
               /\ a.dataFt.top # b.dataFt.top
            \/ /\ a.dataFt.top = NoText /\ b.dataFt.top = NoText
               /\ FromLinks(a) # NoText /\ FromLinks(b) # NoText
               /\ FromLinks(a) # FromLinks(b))
          => /\ resolved[i].id # resolved[j].id
             /\ AcceptedAsNew(j)

\* C31: whenever a piece found in a post contains a shorter piece found in
\* it, the shorter piece is not in the body, whatever the two lengths are.
C31_ShorterDropped ==
  \A a, b \in SeqSet(content.found) :
    (Len(a) > Len(b) /\ Includes(a, b)) => b \notin SeqSet(content.body)

\* C32: whenever a loading cycle takes its settle delay, the delay lies
\* between MinTimeout and MaxTimeout; it is InitialLoadTime in the first
\* cycle begun in a run, and in a later cycle it is the time the previous
\* cycle measured for its wait and scan, brought into that range.
C32_SettleDelay ==
  [][(pacing.timeout = 0 /\ pacing'.timeout # 0)
       => /\ pacing'.timeout >= MinTimeout /\ pacing'.timeout <= MaxTimeout
          /\ pacing'.cycleOfRun = 1 => pacing'.timeout = InitialLoadTime
          /\ (pacing'.cycleOfRun > 1 /\ pacing.measured >= 0)
               => pacing'.timeout = Timeout(pacing.measured)]_vars

\* C33: the scraper is paused only while it is collecting.
C33_PausedOnlyCollecting == isPaused => isCollecting

\* C34: of the timers created by startCollecting at most one progress
\* timer, one backup timer and one cleanup timer is active at a time.
C34_OneTimerOfAKind ==
  \A k \in {"backup", "progress", "cleanup"} :
    Cardinality({t \in intervals : t.kind = k}) <= 1

\* C35: every post in the collection was taken from a candidate that a
\* scan of the current run found (stated for a run that is the only one
\* with timers alive: every earlier run was stopped before it started).
C35_ItemsOfThisRun ==
  (\A t \in intervals : t.id = runNo)
    => \A i \in 1 .. Len(scrapedPosts) : scrapedPosts[i].run = runNo

\* C36: the count that a progress event or an answer to getScrapingState
\* has just reported in a run is not above the count the scraper holds
\* after the next step of that run, which is what a state query made then
\* reports (stated for a run with a target above 0).
C36_CountNeverDecreases ==
  [][(/\ response.kind \in {"progress", "state"}
      /\ isCollecting /\ postsToCollect > 0 /\ runNo' = runNo)
       => Len(scrapedPosts') >= response.currentCount]_vars

\* C37: while a run is collecting and has its checkpoint in the storage, a
\* data request is not answered with a completed result, which can only be
\* the result of an earlier run.
C37_DataOfLatestRun ==
  (/\ response.kind = "data" /\ response.success
   /\ isCollecting
   /\ storage.progressData.present /\ ~storage.progressData.isComplete)
    => ~response.data.isComplete

\* C38: from the completion of a run until another run is initialised, the
\* storage holds under the progress-data key a result marked complete.
C38_CompletedResultStays ==
  endedBy = "complete"
    => /\ storage.progressData.present
       /\ storage.progressData.isComplete

====
